---- MODULE Spec2Model ----
(***************************************************************************)
(* Trade-sync pipeline of Walleto: the exchange connections, the 24h       *)
(* scheduler (sync_scheduler.py), the manual sync job (routes/exchanges.py)*)
(* the per-exchange sync routes (routes/*_sync.py), the Blofin fetch and   *)
(* normalisation (exchange_service.py) and the deduplicator.               *)
(***************************************************************************)
EXTENDS Integers, Sequences, FiniteSets, TLC

\* ---------------------------------------------------------------- bounds
MaxHist == 2        \* closed positions the exchanges report in one behaviour
MaxManual == 1      \* run_sync_job background tasks alive at the same time

\* ------------------------------------------------------ program constants
ErrorLimit == 500   \* str(e)[:500]
UnsupportedLen == 41 \* len("This method only supports Blofin exchange")

Conns == {"c1", "c2"}
ConnOrder == <<"c1", "c2">>         \* order of db.query(ExchangeConnection).all()
Exchanges == {"blofin", "binance", "bybit", "hyperliquid"}
ManualSlots == 1..MaxManual

NoTime == -1                         \* last_sync_time IS NULL / since = None
NoError == [kind |-> "none", len |-> 0]   \* last_error IS NULL
ErrLens == {60, 600}                 \* lengths of str(e) of an exchange error
DecryptLen == 0                      \* str(InvalidToken()) is empty

\* (entry, exit, pnl_usd) of the closed positions an account can hold
Prices == { [entry |-> 100, exit |-> 110, pnl |-> 10],
            [entry |-> 100, exit |-> 100, pnl |-> 0] }

VARIABLES
  row,        \* exchange_connections table (SQLAlchemy): one row per connection
  hist,       \* per account, the closed positions on the exchange, newest first
  store,      \* trades table: number of rows per <<user_id, exchange, exchange_trade_id>>
  sched,      \* the scheduler thread: firing position and its inline job
  manual,     \* run_sync_job background tasks
  route,      \* a request to a per-exchange sync/resync route
  emitted,    \* <<connection, source id, exchange_trade_id>> of the canonical trades emitted
  client,     \* an exchange client inside one fetch: its pagination loop and its request
  registry,   \* the rows of exchange_connections per (user, exchange) and the requests creating them
  calc,       \* one record on its way through a calculation or prepare step: input and output
  life,       \* the module-global _scheduler of sync_scheduler.py and the calls made on it
  agg,        \* a list of fills or records handed to an aggregation pass, and its result
  sizes       \* get_contract_size._cache: the contract sizes kept between Blofin jobs

vars == <<row, hist, store, sched, manual, route, emitted, client, registry, calc,
          life, agg, sizes>>

\* ---------------------------------------------------------------- helpers
Min(a, b) == IF a < b THEN a ELSE b

RECURSIVE SumLen(_, _)
SumLen(h, S) == IF S = {} THEN 0
                ELSE LET c == CHOOSE x \in S : TRUE IN Len(h[c]) + SumLen(h, S \ {c})

\* datetime.utcnow(): the logical clock advances with every exchange event
now == SumLen(hist, Conns)

\* the history is newest first and only grows at the front: the last n
\* positions are the ones an answer sent when the history had n positions holds
Suffix(h, n) == SubSeq(h, Len(h) - n + 1, Len(h))

\* str(e)[:500]
Truncate(e) == [kind |-> e.kind, len |-> Min(e.len, ErrorLimit)]

\* a job between its requests: pc, the connection, the since parameter its
\* requests carry (req), the size of the history in the answer (n)
IdleJob == [pc |-> "idle", conn |-> "c1", req |-> NoTime, n |-> 0]

\* f"blofin-{i}"
ExchangeTradeId(i) == "blofin-" \o ToString(i)

Users == {"u1", "u2"}
StoreKeys == Users \X {"blofin"} \X {ExchangeTradeId(i) : i \in 0..(MaxHist - 1)}

\* -------------------------------------------------- exchange_service.py
\* _normalize_calculated_blofin_trades: the id is the position of the trade
\* in the batch; records with a zero price are skipped but keep their index
RECURSIVE NormalizeCalculated(_, _, _)
NormalizeCalculated(trades, i, exchange_id) ==
  IF i > Len(trades) THEN <<>>
  ELSE LET t == trades[i]
           rest == NormalizeCalculated(trades, i + 1, exchange_id)
       IN IF t.entry = 0 \/ t.exit = 0 THEN rest
          ELSE <<[exchange_trade_id |-> ExchangeTradeId(i - 1),
                  exchange |-> exchange_id, src |-> t.ts,
                  entry |-> t.entry, exit |-> t.exit, pnl_usd |-> t.pnl]>> \o rest

\* fetch_all_trades after the page loop: the positions whose entry price is 0
\* are dropped by calculate_trade_fields before the normalisation numbers the
\* rest; the since argument is not read
FetchAllTrades(fills, since) ==
  NormalizeCalculated(SelectSeq(fills, LAMBDA p : p.entry # 0), 1, "blofin")

ExistingIds(st, user_id, exchange_name) ==
  {k[3] : k \in {x \in StoreKeys : st[x] > 0 /\ x[1] = user_id /\ x[2] = exchange_name}}

\* deduplicate_trades
DeduplicateTrades(new_trades, user_id, exchange_name, st) ==
  SelectSeq(new_trades,
            LAMBDA t : t.exchange_trade_id \notin ExistingIds(st, user_id, exchange_name))

\* db.add(Trade(...)) for every trade of the list, then db.commit()
RECURSIVE InsertAll(_, _, _)
InsertAll(st, trades, user_id) ==
  IF trades = <<>> THEN st
  ELSE LET t == Head(trades)
           k == <<user_id, t.exchange, t.exchange_trade_id>>
       IN InsertAll([st EXCEPT ![k] = @ + 1], Tail(trades), user_id)

\* run_sync_job line 382: records the manual job does not insert
SkippedByJob(t) == t.entry = 0 \/ t.exit = 0 \/ (t.entry = t.exit /\ t.pnl_usd = 0)

Emit(c, trades) == {<<c, trades[i].src, trades[i].exchange_trade_id>> : i \in 1..Len(trades)}

MarkSuccess(r) == [r EXCEPT !.last_sync_status = "success",
                            !.last_sync_time = now,
                            !.last_error = NoError]
\* a failure handler that also stamps the time of the attempt
MarkFailedStamps(r, e) == [r EXCEPT !.last_sync_status = "failed",
                                    !.last_sync_time = now,
                                    !.last_error = Truncate(e)]
MarkFailed(r, e) == [r EXCEPT !.last_sync_status = "failed",
                              !.last_error = Truncate(e)]

\* ------------------------------------------------------- values at rest
\* no client is fetching
IdleClient == [pc |-> "idle", exchange |-> "blofin", windows |-> 0, page_count |-> 0,
               cursor |-> 0, tries |-> 0]

\* exchange_connections holds no row and no request is creating one
RegKeys == Users \X Exchanges
EmptyRegistry == [count |-> [k \in RegKeys |-> 0], saving |-> <<>>]

\* no record is being calculated
NoCalc == [step |-> "none"]

\* lifespan has called start_scheduler: one BackgroundScheduler runs, holding
\* the job sync_all_exchanges; calls counts the lifecycle calls made so far
StartedScheduler == [scheduler |-> "running", jobs |-> 1, stop |-> "none", running |-> 1,
                     calls |-> 1]

\* no aggregation pass is at work
NoAgg == [step |-> "none"]

\* get_contract_size has no _cache attribute yet
NoCache == [set |-> FALSE]

\* the process is up and none of the parts below is at work
ProcessUp == life = StartedScheduler /\ agg = NoAgg /\ sizes = NoCache

\* ------------------------------------------------------------------ Init
\* the account behind a connection has no closed position yet, or one
InitialHist == { <<>>, <<[ts |-> 1, entry |-> 100, exit |-> 110, pnl |-> 10]>> }

\* add_connection lines 136-144: a new row is pending, never synced, no error
NewRow(user_id, exchange_name) ==
  [user_id |-> user_id, exchange_name |-> exchange_name,
   last_sync_time |-> NoTime, last_sync_status |-> "pending", last_error |-> NoError]

InitJobs ==
  /\ store = [k \in StoreKeys |-> 0]
  /\ sched = [pc |-> "off", idx |-> 0, snap |-> [c \in Conns |-> "pending"],
              req |-> NoTime, n |-> 0, uniq |-> <<>>]
  /\ manual = [s \in ManualSlots |-> IdleJob]
  /\ route = IdleJob
  /\ emitted = {}
  /\ client = IdleClient
  /\ registry = EmptyRegistry
  /\ calc = NoCalc

Init ==
  /\ \E x \in Exchanges :
       row = [c \in Conns |-> IF c = "c1" THEN NewRow("u1", "blofin") ELSE NewRow("u2", x)]
  /\ hist \in [Conns -> InitialHist]
  /\ InitJobs
  /\ ProcessUp

\* --------------------------------------------------------- the exchanges
\* a position closes on the account behind connection c
ExchangeAddsTrade(c, p) ==
  /\ now < MaxHist
  /\ hist' = [hist EXCEPT ![c] = <<[ts |-> now + 1, entry |-> p.entry,
                                     exit |-> p.exit, pnl |-> p.pnl]>> \o @]
  /\ UNCHANGED <<row, store, sched, manual, route, emitted, client, registry, calc, life, agg, sizes>>

\* ------------------------------------------------- sync_scheduler.py
Cur == ConnOrder[sched.idx]
\* back in the for loop of sync_all_connections; the object loaded for the
\* connection just handled is not read again
SchedNext == [sched EXCEPT !.pc = "loop", !.idx = @ + 1, !.snap[Cur] = "pending",
                           !.req = NoTime, !.n = 0, !.uniq = <<>>]

\* sync_all_connections, lines 84-88: the rows are loaded once per firing
SchedFire ==
  /\ sched.pc = "off"
  /\ sched' = [sched EXCEPT !.pc = "loop", !.idx = 1,
                            !.snap = [c \in Conns |-> row[c].last_sync_status]]
  /\ UNCHANGED <<row, hist, store, manual, route, emitted, client, registry, calc, life, agg, sizes>>

\* lines 93-95
SchedSkip ==
  /\ sched.pc = "loop" /\ sched.idx <= Len(ConnOrder)
  /\ sched.snap[Cur] = "in_progress"
  /\ sched' = SchedNext
  /\ UNCHANGED <<row, hist, store, manual, route, emitted, client, registry, calc, life, agg, sizes>>

\* lines 97-101, 123-137, 162-189: the job runs inside the firing
SchedDispatch ==
  /\ sched.pc = "loop" /\ sched.idx <= Len(ConnOrder)
  /\ sched.snap[Cur] # "in_progress"
  /\ row' = [row EXCEPT ![Cur].last_sync_status = "in_progress"]
  /\ sched' = [sched EXCEPT !.pc = "await", !.req = NoTime]
  /\ UNCHANGED <<hist, store, manual, route, emitted, client, registry, calc, life, agg, sizes>>

\* a firing that gives up at the first connection whose secrets do not decrypt
SchedDecryptAborts ==
  /\ sched.pc = "loop" /\ sched.idx <= Len(ConnOrder)
  /\ sched.snap[Cur] # "in_progress"
  /\ row' = [row EXCEPT ![Cur] = MarkFailed(@, [kind |-> "decrypt", len |-> DecryptLen])]
  /\ sched' = [sched EXCEPT !.pc = "off", !.idx = 0, !.snap[Cur] = "pending"]
  /\ UNCHANGED <<hist, store, manual, route, emitted, client, registry, calc, life, agg, sizes>>

\* lines 125-127 raise, lines 141-154
SchedDecryptFails ==
  /\ sched.pc = "loop" /\ sched.idx <= Len(ConnOrder)
  /\ sched.snap[Cur] # "in_progress"
  /\ row' = [row EXCEPT ![Cur] = MarkFailed(@, [kind |-> "decrypt", len |-> DecryptLen])]
  /\ sched' = SchedNext
  /\ UNCHANGED <<hist, store, manual, route, emitted, client, registry, calc, life, agg, sizes>>

\* fetch_all_trades line 143 raises ValueError, _sync_connection lines 247-258
SchedUnsupported ==
  /\ sched.pc = "await"
  /\ row[Cur].exchange_name # "blofin"
  /\ row' = [row EXCEPT ![Cur] =
               MarkFailed(@, [kind |-> "unsupported", len |-> UnsupportedLen])]
  /\ sched' = SchedNext
  /\ UNCHANGED <<hist, store, manual, route, emitted, client, registry, calc, life, agg, sizes>>

\* a fills-history request of the job fails (code 152404, another code, a
\* non-200 answer, a network error): fetch_all_trades lines 179-203, 251-255
SchedFetchFails ==
  /\ sched.pc = "await"
  /\ row[Cur].exchange_name = "blofin"
  /\ sched' = [sched EXCEPT !.pc = "fetch_error"]
  /\ UNCHANGED <<row, hist, store, manual, route, emitted, client, registry, calc, life, agg, sizes>>

\* the exchange answers the last page request
SchedFetchReturns ==
  /\ sched.pc = "await"
  /\ row[Cur].exchange_name = "blofin"
  /\ sched' = [sched EXCEPT !.pc = "fetched", !.n = Len(hist[Cur])]
  /\ UNCHANGED <<row, hist, store, manual, route, emitted, client, registry, calc, life, agg, sizes>>

\* lines 190-203
SchedProcess ==
  /\ sched.pc \in {"fetched", "fetch_error"}
  /\ LET c == Cur
         fetched_trades == IF sched.pc = "fetch_error" THEN <<>>
                           ELSE FetchAllTrades(Suffix(hist[c], sched.n), sched.req)
     IN /\ emitted' = emitted \cup Emit(c, fetched_trades)
        /\ IF fetched_trades = <<>>
           THEN /\ row' = [row EXCEPT ![c] = MarkSuccess(@)]
                /\ sched' = SchedNext
           ELSE /\ row' = row
                /\ sched' = [sched EXCEPT !.pc = "store",
                               !.uniq = DeduplicateTrades(fetched_trades, row[c].user_id,
                                                          row[c].exchange_name, store)]
  /\ UNCHANGED <<hist, store, manual, route, client, registry, calc, life, agg, sizes>>

\* lines 205-245
SchedStore ==
  /\ sched.pc = "store"
  /\ store' = InsertAll(store, sched.uniq, row[Cur].user_id)
  /\ row' = [row EXCEPT ![Cur] = MarkSuccess(@)]
  /\ sched' = SchedNext
  /\ UNCHANGED <<hist, manual, route, emitted, client, registry, calc, life, agg, sizes>>

\* lines 107-113
SchedFiringEnds ==
  /\ sched.pc = "loop" /\ sched.idx > Len(ConnOrder)
  /\ sched' = [sched EXCEPT !.pc = "off", !.idx = 0]
  /\ UNCHANGED <<row, hist, store, manual, route, emitted, client, registry, calc, life, agg, sizes>>

\* ------------------------------------------------- routes/exchanges.py
\* sync_trades lines 188-203 and run_sync_job lines 308-331; a new background
\* task takes the lowest free slot
ManualStart(s, c) ==
  /\ manual[s].pc = "idle"
  /\ \A q \in 1..(s - 1) : manual[q].pc # "idle"
  /\ row' = [row EXCEPT ![c].last_sync_status = "in_progress"]
  /\ manual' = [manual EXCEPT ![s] = [IdleJob EXCEPT !.pc = "await", !.conn = c,
                                                    !.req = NoTime]]
  /\ UNCHANGED <<hist, store, sched, route, emitted, client, registry, calc, life, agg, sizes>>

\* fetch_all_trades line 143 raises ValueError, run_sync_job lines 427-440
ManualUnsupported(s) ==
  /\ manual[s].pc = "await"
  /\ row[manual[s].conn].exchange_name # "blofin"
  /\ row' = [row EXCEPT ![manual[s].conn] =
               MarkFailed(@, [kind |-> "unsupported", len |-> UnsupportedLen])]
  /\ manual' = [manual EXCEPT ![s] = IdleJob]
  /\ UNCHANGED <<hist, store, sched, route, emitted, client, registry, calc, life, agg, sizes>>

ManualFetchFails(s) ==
  /\ manual[s].pc = "await"
  /\ row[manual[s].conn].exchange_name = "blofin"
  /\ manual' = [manual EXCEPT ![s].pc = "fetch_error"]
  /\ UNCHANGED <<row, hist, store, sched, route, emitted, client, registry, calc, life, agg, sizes>>

ManualFetchReturns(s) ==
  /\ manual[s].pc = "await"
  /\ row[manual[s].conn].exchange_name = "blofin"
  /\ manual' = [manual EXCEPT ![s].pc = "fetched", ![s].n = Len(hist[manual[s].conn])]
  /\ UNCHANGED <<row, hist, store, sched, route, emitted, client, registry, calc, life, agg, sizes>>

\* run_sync_job lines 332-425: no await after the fetch returns
ManualFinish(s) ==
  /\ manual[s].pc \in {"fetched", "fetch_error"}
  /\ LET c == manual[s].conn
         fetched_trades == IF manual[s].pc = "fetch_error" THEN <<>>
                           ELSE FetchAllTrades(Suffix(hist[c], manual[s].n), manual[s].req)
         unique_trades == DeduplicateTrades(fetched_trades, row[c].user_id,
                                            row[c].exchange_name, store)
     IN /\ emitted' = emitted \cup Emit(c, fetched_trades)
        /\ store' = InsertAll(store, SelectSeq(unique_trades, LAMBDA t : ~SkippedByJob(t)),
                              row[c].user_id)
        /\ row' = [row EXCEPT ![c] = MarkSuccess(@)]
  /\ manual' = [manual EXCEPT ![s] = IdleJob]
  /\ UNCHANGED <<hist, sched, route, client, registry, calc, life, agg, sizes>>

\* ------------------------------------------------- routes/*_sync.py
\* fills with timestamp at or after begin/startTime (all of them without one)
Since(h, t) == SelectSeq(h, LAMBDA p : t = NoTime \/ p.ts >= t)

\* resync_<exchange>_trades and sync_<exchange>_trades up to the first request:
\* blofin_sync.py 370-411, binance_sync.py 175-207, bybit_sync.py 150-178;
\* hyperliquid_sync.py 248-273, 151-164 loads no row and passes no start time
RouteStart(c) ==
  /\ route.pc = "idle"
  /\ IF row[c].exchange_name = "hyperliquid"
     THEN /\ row' = row
          /\ route' = [IdleJob EXCEPT !.pc = "await", !.conn = c, !.req = NoTime]
     ELSE /\ row' = [row EXCEPT ![c].last_sync_status = "in_progress"]
          /\ route' = [IdleJob EXCEPT !.pc = "await", !.conn = c,
                                      !.req = row[c].last_sync_time]
  /\ UNCHANGED <<hist, store, sched, manual, emitted, client, registry, calc, life, agg, sizes>>

\* a request of the route fails: BlofinClient._request raises and the handler
\* marks the row failed (blofin_sync.py 522-530); BinanceClient._fetch_symbol_trades
\* (287-288) and BybitClient.fetch_closed_pnl (155-157) swallow the error and the
\* handler returns "No trades found" (binance_sync.py 209-213, bybit_sync.py
\* 180-184); the Hyperliquid handler has no row to mark (hyperliquid_sync.py 230-242)
RouteFetchFails ==
  /\ route.pc = "await"
  /\ IF row[route.conn].exchange_name = "blofin"
     THEN \E len \in ErrLens :
            row' = [row EXCEPT ![route.conn] = MarkFailed(@, [kind |-> "api", len |-> len])]
     ELSE row' = row
  /\ route' = IdleJob
  /\ UNCHANGED <<hist, store, sched, manual, emitted, client, registry, calc, life, agg, sizes>>

\* the requests succeed: blofin_sync.py 413-520, binance_sync.py 209-272,
\* bybit_sync.py 180-230, hyperliquid_sync.py 166-228.  The success update goes
\* through the Supabase client (reaches says whether it lands on this row)
RouteFetchReturns ==
  /\ route.pc = "await"
  /\ LET c == route.conn
         raw_fills == Since(hist[c], route.req)
     IN IF raw_fills = <<>>
        THEN row' = row
        ELSE \E reaches \in BOOLEAN :
               row' = IF reaches THEN [row EXCEPT ![c] = MarkSuccess(@)] ELSE row
  /\ route' = IdleJob
  /\ UNCHANGED <<hist, store, sched, manual, emitted, client, registry, calc, life, agg, sizes>>

\* ------------------------------------------------------------------ Next
\* the scheduler thread and the manual jobs of the event loop, interleaved
Next ==
  \/ SchedFire
  \/ SchedSkip
  \/ SchedDispatch
  \/ SchedDecryptFails
  \/ SchedUnsupported
  \/ SchedFetchFails
  \/ SchedFetchReturns
  \/ SchedProcess
  \/ SchedStore
  \/ SchedFiringEnds
  \/ \E s \in ManualSlots, c \in Conns : ManualStart(s, c)
  \/ \E s \in ManualSlots : ManualUnsupported(s)
  \/ \E s \in ManualSlots : ManualFetchFails(s)
  \/ \E s \in ManualSlots : ManualFetchReturns(s)
  \/ \E s \in ManualSlots : ManualFinish(s)

Spec == Init /\ [][Next]_vars

\* the per-exchange routes, called while the accounts trade
NextRoutes ==
  \/ \E c \in Conns, p \in Prices : ExchangeAddsTrade(c, p)
  \/ \E c \in Conns : RouteStart(c)
  \/ RouteFetchFails
  \/ RouteFetchReturns

SpecRoutes == Init /\ [][NextRoutes]_vars

\* no job is running and no firing is under way
Quiet ==
  /\ sched.pc = "off"
  /\ \A s \in ManualSlots : manual[s].pc = "idle"
  /\ route.pc = "idle"

\* one job after the other, every exchange request answered, the accounts
\* trading between the jobs
SeqExchangeAddsTrade == Quiet /\ \E c \in Conns, p \in Prices : ExchangeAddsTrade(c, p)
SeqSchedFire == Quiet /\ SchedFire
SeqManualStart == Quiet /\ \E s \in ManualSlots, c \in Conns : ManualStart(s, c)

NextSeq ==
  \/ SeqExchangeAddsTrade
  \/ SeqSchedFire
  \/ SeqManualStart
  \/ SchedDispatch
  \/ SchedUnsupported
  \/ SchedFetchReturns
  \/ SchedProcess
  \/ SchedStore
  \/ SchedFiringEnds
  \/ \E s \in ManualSlots : ManualUnsupported(s)
  \/ \E s \in ManualSlots : ManualFetchReturns(s)
  \/ \E s \in ManualSlots : ManualFinish(s)

SpecSeq == Init /\ [][NextSeq]_vars

\* one job after the other over every sync path, requests failing or not
SeqRouteStart == Quiet /\ \E c \in Conns : RouteStart(c)

NextPaths ==
  \/ SeqExchangeAddsTrade
  \/ SeqSchedFire
  \/ SeqManualStart
  \/ SeqRouteStart
  \/ SchedSkip
  \/ SchedDispatch
  \/ SchedDecryptFails
  \/ SchedUnsupported
  \/ SchedFetchFails
  \/ SchedFetchReturns
  \/ SchedProcess
  \/ SchedStore
  \/ SchedFiringEnds
  \/ \E s \in ManualSlots : ManualUnsupported(s)
  \/ \E s \in ManualSlots : ManualFetchFails(s)
  \/ \E s \in ManualSlots : ManualFetchReturns(s)
  \/ \E s \in ManualSlots : ManualFinish(s)
  \/ RouteFetchFails
  \/ RouteFetchReturns

SpecPaths == Init /\ [][NextPaths]_vars

\* no sync job, no firing and no trade: the state the other parts start from
SyncIdle ==
  /\ row = [c \in Conns |-> IF c = "c1" THEN NewRow("u1", "blofin")
                                         ELSE NewRow("u2", "blofin")]
  /\ hist = [c \in Conns |-> <<>>]
  /\ store = [k \in StoreKeys |-> 0]
  /\ sched = [pc |-> "off", idx |-> 0, snap |-> [c \in Conns |-> "pending"],
              req |-> NoTime, n |-> 0, uniq |-> <<>>]
  /\ manual = [s \in ManualSlots |-> IdleJob]
  /\ route = IdleJob
  /\ emitted = {}

\* ------------------------------------------------- the exchange clients
MaxWindows == 2     \* 7-day windows in the time range of one fetch
max_pages == 10000  \* fetch_trade_history(max_pages=10000)
PagedExchanges == {"blofin", "bybit", "binance"}
PageKinds == {"full", "short", "empty"}   \* len(page) = limit, 0 < len(page) < limit, 0
Cursors == {1, 2}   \* tradeId of the last fill / nextPageCursor / id of the last trade

\* the client has sent a request (once) and waits for the answer
SendRequest(cl) == [cl EXCEPT !.pc = "request", !.tries = 1]

\* BybitClient.fetch_closed_pnl 164-165, BinanceClient._fetch_symbol_trades 290-291:
\* the window at hand is finished, the outer loop goes to the next one
NextWindow(cl) ==
  IF cl.windows > 1
  THEN SendRequest([cl EXCEPT !.windows = @ - 1, !.cursor = 0])
  ELSE [cl EXCEPT !.pc = "returned", !.windows = 0, !.cursor = 0]

\* a fetch starts: fetch_trade_history 204-219, fetch_closed_pnl 107-143,
\* _fetch_symbol_trades 248-272
InitFetch ==
  /\ \E x \in PagedExchanges, w \in 1..MaxWindows :
       client = SendRequest([IdleClient EXCEPT !.exchange = x,
                                               !.windows = IF x = "blofin" THEN 1 ELSE w])
  /\ SyncIdle
  /\ registry = EmptyRegistry
  /\ calc = NoCalc
  /\ ProcessUp

\* the server answers the request with a page and the cursor of its last record
FetchPageArrives(kind, cur) ==
  /\ client.pc = "request"
  /\ client' =
       CASE client.exchange = "blofin" ->
              \* fetch_trade_history 221-236
              IF kind = "empty" THEN [client EXCEPT !.pc = "returned"]
              ELSE IF kind = "short" \/ client.page_count + 1 >= max_pages
                   THEN [client EXCEPT !.pc = "returned", !.page_count = @ + 1]
                   ELSE SendRequest([client EXCEPT !.page_count = @ + 1, !.cursor = cur])
         [] client.exchange = "bybit" ->
              \* fetch_closed_pnl 140-153: no page counter
              IF kind = "full" THEN SendRequest([client EXCEPT !.cursor = cur])
              ELSE NextWindow(client)
         [] OTHER ->
              \* _fetch_symbol_trades 273-285: no page counter
              IF kind = "full" THEN SendRequest([client EXCEPT !.cursor = cur])
              ELSE NextWindow(client)
  /\ UNCHANGED <<row, hist, store, sched, manual, route, emitted, registry, calc, life, agg, sizes>>

\* the request is rejected (HTTP 429, 5xx, rate-limit code) or times out:
\* _request raises at once; fetch_trade_history lets the error out,
\* fetch_closed_pnl 155-157 and _fetch_symbol_trades 287-288 give the window up
FetchRequestFails ==
  /\ client.pc = "request"
  /\ client' = IF client.exchange = "blofin" THEN [client EXCEPT !.pc = "raised"]
               ELSE NextWindow(client)
  /\ UNCHANGED <<row, hist, store, sched, manual, route, emitted, registry, calc, life, agg, sizes>>

NextFetch ==
  \/ \E kind \in PageKinds, cur \in Cursors : FetchPageArrives(kind, cur)
  \/ FetchRequestFails

SpecFetch == InitFetch /\ [][NextFetch]_vars

\* the client runs on and the server keeps answering
SpecFetchFair == SpecFetch /\ WF_vars(NextFetch)

\* --------------------------------------------- exchange_connections rows
MaxRows == 2        \* rows of one (user, exchange) the table is let grow to

InitRegistry ==
  /\ registry = EmptyRegistry
  /\ SyncIdle
  /\ client = IdleClient
  /\ calc = NoCalc
  /\ ProcessUp

\* add_connection: the credentials validate and the row is inserted; no query
\* for an existing row of the (user, exchange)
AddConnection(k) ==
  /\ registry.count[k] < MaxRows
  /\ registry' = [registry EXCEPT !.count[k] = @ + 1]
  /\ UNCHANGED <<row, hist, store, sched, manual, route, emitted, client, calc, life, agg, sizes>>

\* delete_connection: one row is deleted by id
DeleteConnection(k) ==
  /\ registry.count[k] > 0
  /\ registry' = [registry EXCEPT !.count[k] = @ - 1]
  /\ UNCHANGED <<row, hist, store, sched, manual, route, emitted, client, calc, life, agg, sizes>>

\* sync_<exchange>_trades with save_connection: the select for an existing row
\* of the (user, exchange); a row found is updated (blofin_sync.py 485-496)
SaveConnectionSelects(k) ==
  /\ registry.saving = <<>>
  /\ registry' = IF registry.count[k] > 0 THEN registry
                 ELSE [registry EXCEPT !.saving = k]
  /\ registry' # registry
  /\ UNCHANGED <<row, hist, store, sched, manual, route, emitted, client, calc, life, agg, sizes>>

\* no row was found: the insert (blofin_sync.py 497-511)
SaveConnectionInserts ==
  /\ registry.saving # <<>>
  /\ registry.count[registry.saving] < MaxRows
  /\ registry' = [registry EXCEPT !.count[registry.saving] = @ + 1, !.saving = <<>>]
  /\ UNCHANGED <<row, hist, store, sched, manual, route, emitted, client, calc, life, agg, sizes>>

NextRegistry ==
  \/ \E k \in RegKeys : AddConnection(k)
  \/ \E k \in RegKeys : DeleteConnection(k)
  \/ \E k \in RegKeys : SaveConnectionSelects(k)
  \/ SaveConnectionInserts

SpecRegistry == InitRegistry /\ [][NextRegistry]_vars

\* ------------------------------------- calculation and prepare steps
\* amounts (prices, sizes, USD, leverage) are in thousandths; rounding to 8
\* decimals leaves every such amount as it is
Unit == 1000
Abs(x) == IF x < 0 THEN -x ELSE x

\* normalize_numeric_value(value, max_value)
NormalizeNumericValue(value, max_value) ==
  IF Abs(value) > max_value * Unit THEN 0 ELSE value

\* round(x, 2); no amount used here lies half-way between two hundredths
Round2(x) == LET r == ((Abs(x) + 5) \div 10) * 10 IN IF x < 0 THEN -r ELSE r

NoDate == 0            \* exit_date = None, or a record without a timestamp
UtcNow == 9            \* datetime.utcnow(): later than every timestamp of a record
Dropped == [kind |-> "dropped"]

\* the ways a record reaches the trades table
Paths == {"blofin_route", "blofin_job", "binance", "bybit", "hyperliquid"}

\* an aggregated position as the exchange data gives it: lever = 0 when the
\* exchange supplies no leverage, override = 0 when the user has no setting
\* for the symbol, created = 0 when the entry timestamp is missing; only
\* Bybit reports both timestamps itself, the other paths take the earliest
\* entry fill and the latest exit fill
RawSymbols(path) ==
  CASE path \in {"blofin_route", "blofin_job"} -> {"BTC-USDT"}
    [] path = "hyperliquid" -> {"BTC", "@107"}
    [] OTHER -> {"BTCUSDT", "ETHBUSD", "BTCUSDC", "BTCPERP"}

RawRecords(path) ==
  [entry : {-5 * Unit, 0, 100 * Unit, 2000000 * Unit},
   exit : {0, 100 * Unit, 110 * Unit},
   size : {0, Unit, 2000000 * Unit},
   pnl : {0, 4, 10 * Unit},
   lever : {0, 500, Unit, 150 * Unit},
   override : {0, 5 * Unit},
   created : {0, 5},
   closed : IF path = "bybit" THEN {3, 7} ELSE {7},
   symbol : RawSymbols(path)]

\* calculate_binance_trade_fields 448-456
BinanceSymbol(symbol_raw) ==
  LET n == Len(symbol_raw) IN
  IF n >= 4 /\ SubSeq(symbol_raw, n - 3, n) = "USDT" THEN SubSeq(symbol_raw, 1, n - 4) \o "-USDT"
  ELSE IF n >= 4 /\ SubSeq(symbol_raw, n - 3, n) = "BUSD"
       THEN SubSeq(symbol_raw, 1, n - 4) \o "-BUSD"
       ELSE symbol_raw

\* calculate_bybit_trade_fields 199-206
BybitSymbol(symbol_raw) ==
  LET n == Len(symbol_raw) IN
  IF n >= 4 /\ SubSeq(symbol_raw, n - 3, n) = "USDT" THEN SubSeq(symbol_raw, 1, n - 4) \o "-USDT"
  ELSE IF n >= 4 /\ SubSeq(symbol_raw, n - 3, n) = "USDC"
       THEN SubSeq(symbol_raw, 1, n - 4) \o "-USDC"
       ELSE symbol_raw

DefaultLeverageHL == 10 * Unit   \* HyperliquidSyncRequest.default_leverage

\* calculate_trade_fields, calculate_binance_trade_fields,
\* calculate_bybit_trade_fields, aggregate_hyperliquid_fills (one open fill
\* and one close fill of the same size)
CalculateFields(path, r) ==
  LET date == IF r.created > 0 THEN r.created ELSE UtcNow
      closeDate == IF r.closed > 0 THEN r.closed ELSE UtcNow
      common == [entry |-> r.entry, exit |-> r.exit, size |-> r.size,
                 leverage |-> IF r.lever > 0 THEN r.lever ELSE Unit,
                 pnl_usd |-> Round2(r.pnl), date |-> date,
                 exit_date |-> IF r.closed > 0 THEN r.closed ELSE NoDate,
                 symbol |-> r.symbol]
  IN CASE path \in {"blofin_route", "blofin_job"} ->
            IF r.entry = 0 THEN Dropped ELSE common
       [] path = "binance" ->
            IF r.entry = 0 \/ r.size = 0 THEN Dropped
            ELSE [common EXCEPT !.symbol = BinanceSymbol(r.symbol)]
       [] path = "bybit" ->
            IF r.entry = 0 \/ r.size = 0 THEN Dropped
            ELSE [common EXCEPT !.symbol = BybitSymbol(r.symbol),
                                !.exit_date = IF r.closed > 0 THEN r.closed ELSE date]
       [] OTHER ->
            \* the close fill is skipped; else a close whose open fill was
            \* skipped is a trade of its own
            IF r.exit = 0 \/ r.size = 0 THEN Dropped
            ELSE [common EXCEPT !.entry = IF r.entry = 0 THEN r.exit ELSE r.entry,
                                !.leverage = DefaultLeverageHL,
                                !.date = IF r.entry = 0 THEN closeDate ELSE date,
                                !.exit_date = closeDate,
                                !.symbol = r.symbol \o "-USDC"]

\* the record that follows in the list handed to match_entry_exit_pairs
NoNext == [kind |-> "none"]
NextRecords == {NoNext, [kind |-> "entry", date |-> 2, entry |-> 90 * Unit]}

\* match_entry_exit_pairs applied to c followed by nxt (same symbol, pnl_usd 0)
MatchEntryExitPairs(c, nxt) ==
  IF c.pnl_usd = 0 THEN Dropped
  ELSE IF nxt = NoNext THEN c
       ELSE [c EXCEPT !.exit_date = c.date, !.date = nxt.date,
                      !.exit = c.entry, !.entry = nxt.entry]

\* the leverage a prepare step writes when it consults the user's settings
\* (prepare_trades_for_supabase 312-323, prepare_binance_trades_for_supabase
\* 121-129)
PreparedLeverage(trade_leverage, override, max_value) ==
  IF trade_leverage > 0 THEN Round2(NormalizeNumericValue(trade_leverage, max_value))
  ELSE IF override > 0 THEN override ELSE Unit

\* the leverage run_sync_job stores (exchanges.py 362-378)
JobLeverage(trade_leverage, override) ==
  IF trade_leverage <= 0 \/ trade_leverage = Unit
  THEN IF override > 0 THEN override ELSE Unit
  ELSE trade_leverage

\* prepare_trades_for_supabase, prepare_binance_trades_for_supabase,
\* prepare_bybit_trades_for_supabase, prepare_hyperliquid_trades_for_supabase;
\* for "blofin_job" _normalize_calculated_blofin_trades followed by the loop
\* body of run_sync_job
PrepareTrade(path, c, override) ==
  LET entry_price == NormalizeNumericValue(c.entry, 1000000)
      exit_price == NormalizeNumericValue(c.exit, 1000000)
      pnl_usd == Round2(NormalizeNumericValue(c.pnl_usd, 100000))
      out == [kind |-> "trade", entry_price |-> entry_price, exit_price |-> exit_price,
              quantity |-> NormalizeNumericValue(c.size, 1000000),
              leverage |-> Round2(NormalizeNumericValue(c.leverage, 100)),
              pnl_usd |-> pnl_usd, entry_time |-> c.date, exit_time |-> c.exit_date,
              symbol |-> c.symbol]
  IN IF path = "blofin_job"
     THEN IF c.entry = 0 \/ c.exit = 0 \/ (c.entry = c.exit /\ c.pnl_usd = 0) THEN Dropped
          ELSE [out EXCEPT !.entry_price = c.entry, !.exit_price = c.exit,
                           !.quantity = c.size, !.pnl_usd = c.pnl_usd,
                           !.leverage = JobLeverage(c.leverage, override),
                           !.exit_time = NoDate]
     ELSE IF entry_price = 0 \/ exit_price = 0 THEN Dropped
     ELSE IF path \in {"blofin_route", "binance"} /\ pnl_usd = 0 THEN Dropped
     ELSE IF path = "blofin_route"
          THEN [out EXCEPT !.leverage = PreparedLeverage(c.leverage, override, 100)]
     ELSE IF path = "binance"
          THEN [out EXCEPT !.leverage = PreparedLeverage(c.leverage, override, 125)]
     ELSE out

\* one record is drawn and then taken through the steps of its path
InitCalc ==
  /\ SyncIdle
  /\ ProcessUp
  /\ client = IdleClient
  /\ registry = EmptyRegistry
  /\ \E path \in Paths : \E r \in RawRecords(path) :
       \E nxt \in IF path = "blofin_route" THEN NextRecords ELSE {NoNext} :
         calc = [step |-> "raw", path |-> path, raw |-> r, nxt |-> nxt, rec |-> Dropped]

CalcFields ==
  /\ calc.step = "raw"
  /\ LET c == CalculateFields(calc.path, calc.raw) IN
       calc' = [calc EXCEPT !.rec = c,
                            !.step = IF c = Dropped THEN "dropped" ELSE "calculated"]
  /\ UNCHANGED <<row, hist, store, sched, manual, route, emitted, client, registry, life, agg, sizes>>

MatchPairs ==
  /\ calc.step = "calculated"
  /\ calc.path = "blofin_route"
  /\ LET c == MatchEntryExitPairs(calc.rec, calc.nxt) IN
       calc' = [calc EXCEPT !.rec = c,
                            !.step = IF c = Dropped THEN "dropped" ELSE "matched"]
  /\ UNCHANGED <<row, hist, store, sched, manual, route, emitted, client, registry, life, agg, sizes>>

Prepare ==
  /\ calc.step = IF calc.path = "blofin_route" THEN "matched" ELSE "calculated"
  /\ LET t == PrepareTrade(calc.path, calc.rec, calc.raw.override) IN
       calc' = [calc EXCEPT !.rec = t,
                            !.step = IF t = Dropped THEN "dropped" ELSE "emitted"]
  /\ UNCHANGED <<row, hist, store, sched, manual, route, emitted, client, registry, life, agg, sizes>>

NextCalc ==
  \/ CalcFields
  \/ MatchPairs
  \/ Prepare

SpecCalc == InitCalc /\ [][NextCalc]_vars

\* ^[A-Z0-9]+-[A-Z0-9]+$
UpperAlnum ==
  {"A", "B", "C", "D", "E", "F", "G", "H", "I", "J", "K", "L", "M", "N", "O", "P", "Q",
   "R", "S", "T", "U", "V", "W", "X", "Y", "Z", "0", "1", "2", "3", "4", "5", "6", "7",
   "8", "9"}
IsBaseQuote(symbol) ==
  \E i \in 2..(Len(symbol) - 1) :
    /\ SubSeq(symbol, i, i) = "-"
    /\ \A j \in (1..Len(symbol)) \ {i} : SubSeq(symbol, j, j) \in UpperAlnum

\* the canonical trade the prepare step has emitted, if any
Emitted == calc.step = "emitted"

\* ------------------------------------------- the scheduler's lifecycle
\* sync_scheduler.py start_scheduler / stop_scheduler, called one after the
\* other by lifespan (main.py 39-58)
MaxCalls == 4       \* calls of start_scheduler and stop_scheduler in one run

\* the process before lifespan has run: _scheduler is None
NoScheduler == [scheduler |-> "none", jobs |-> 0, stop |-> "none", running |-> 0,
                calls |-> 0]

\* a row may have been left "in_progress" by a process that was killed
InitLife ==
  /\ \E x \in Exchanges, st \in [Conns -> {"pending", "in_progress"}] :
       row = [c \in Conns |->
                [(IF c = "c1" THEN NewRow("u1", "blofin") ELSE NewRow("u2", x))
                   EXCEPT !.last_sync_status = st[c]]]
  /\ hist \in [Conns -> InitialHist]
  /\ InitJobs
  /\ life = NoScheduler
  /\ agg = NoAgg
  /\ sizes = NoCache

\* start_scheduler 29-58: a running scheduler makes the call return at once;
\* otherwise a new BackgroundScheduler gets the job sync_all_exchanges
\* (replace_existing) and is started
StartScheduler ==
  /\ life.stop = "none"
  /\ life.calls < MaxCalls
  /\ life' = IF life.scheduler = "running"
             THEN [life EXCEPT !.calls = @ + 1]
             ELSE [life EXCEPT !.calls = @ + 1, !.scheduler = "running", !.jobs = 1,
                               !.running = @ + 1]
  /\ UNCHANGED <<row, hist, store, sched, manual, route, emitted, client, registry, calc,
                 agg, sizes>>

\* stop_scheduler 61-72: returns at once when _scheduler is None; otherwise
\* shutdown(wait=True) stops the triggers and waits for the executor
StopSchedulerCalled ==
  /\ life.stop = "none"
  /\ life.calls < MaxCalls
  /\ life' = IF life.scheduler = "none"
             THEN [life EXCEPT !.calls = @ + 1]
             ELSE [life EXCEPT !.calls = @ + 1, !.stop = "waiting"]
  /\ UNCHANGED <<row, hist, store, sched, manual, route, emitted, client, registry, calc,
                 agg, sizes>>

\* a stop_scheduler whose shutdown does not wait for the firing in flight
StopSchedulerNoWait ==
  /\ life.stop = "waiting"
  /\ life' = [life EXCEPT !.stop = "none", !.scheduler = "none", !.jobs = 0,
                          !.running = @ - 1]
  /\ UNCHANGED <<row, hist, store, sched, manual, route, emitted, client, registry, calc,
                 agg, sizes>>

\* stop_scheduler 72-74: shutdown(wait=True) has returned, _scheduler = None
StopSchedulerReturns ==
  /\ life.stop = "waiting"
  /\ sched.pc = "off"
  /\ life' = [life EXCEPT !.stop = "none", !.scheduler = "none", !.jobs = 0,
                          !.running = @ - 1]
  /\ UNCHANGED <<row, hist, store, sched, manual, route, emitted, client, registry, calc,
                 agg, sizes>>

\* the interval trigger of a running scheduler fires sync_all_connections
LifeFire ==
  /\ life.scheduler = "running"
  /\ life.stop = "none"
  /\ SchedFire

NextLife ==
  \/ StartScheduler
  \/ StopSchedulerCalled
  \/ StopSchedulerReturns
  \/ LifeFire
  \/ SchedSkip
  \/ SchedDispatch
  \/ SchedDecryptFails
  \/ SchedUnsupported
  \/ SchedFetchFails
  \/ SchedFetchReturns
  \/ SchedProcess
  \/ SchedStore
  \/ SchedFiringEnds

SpecLife == InitLife /\ [][NextLife]_vars

\* ------------------------------------------- folding fills to positions
\* aggregate_binance_trades (binance_client.py 296-419) and
\* aggregate_fills_by_order (blofin_client.py 246-405); a fill is known by its
\* place in the list handed in; the average prices are not carried
MaxFills == 3       \* fills in one list
FillSymbols == {"BTC-USDT", "ETH-USDT"}
FillTimes == {1, 2, 3}
\* realizedPnl / fillPnl: 0 on an entry fill; qty / fillSize with the
\* commission / fee charged (negative) or rebated (positive)
FillPnls == {0, 5}
FillSizes == {[size |-> 1, fee |-> -1], [size |-> 2, fee |-> 1]}
Fills == [symbol : FillSymbols, ts : FillTimes, pnl : FillPnls, sf : FillSizes]

FillLists == UNION {[1..n -> Fills] : n \in 1..MaxFills}

\* the places of fs in by_symbol[symbol], in the order they were appended
RECURSIVE BySymbol(_, _, _)
BySymbol(fs, symbol, i) ==
  IF i > Len(fs) THEN <<>>
  ELSE (IF fs[i].symbol = symbol THEN <<i>> ELSE <<>>) \o BySymbol(fs, symbol, i + 1)

\* list.sort(key=time, reverse=True): stable, newest first
RECURSIVE InsertNewestFirst(_, _, _)
InsertNewestFirst(fs, sorted, i) ==
  IF sorted = <<>> THEN <<i>>
  ELSE IF fs[Head(sorted)].ts < fs[i].ts THEN <<i>> \o sorted
       ELSE <<Head(sorted)>> \o InsertNewestFirst(fs, Tail(sorted), i)

RECURSIVE SortNewestFirst(_, _)
SortNewestFirst(fs, places) ==
  IF places = <<>> THEN <<>>
  ELSE InsertNewestFirst(fs, SortNewestFirst(fs, SubSeq(places, 1, Len(places) - 1)),
                         places[Len(places)])

\* the length of the longest prefix of places whose fills are exits (or entries)
RECURSIVE RunLength(_, _, _)
RunLength(fs, places, exits) ==
  IF places = <<>> \/ ((fs[Head(places)].pnl # 0) # exits) THEN 0
  ELSE 1 + RunLength(fs, Tail(places), exits)

\* a group that is kept whatever it holds
KeepsEveryGroup(fs, position_fills) == position_fills # <<>>

\* has_entry and has_exit and position_fills
HasEntryAndExit(fs, position_fills) ==
  /\ \E k \in 1..Len(position_fills) : fs[position_fills[k]].pnl = 0
  /\ \E k \in 1..Len(position_fills) : fs[position_fills[k]].pnl # 0

\* the while loop over one symbol's fills: exit fills, then entry fills, and
\* the group is kept when it has both
RECURSIVE PositionsOf(_, _)
PositionsOf(fs, places) ==
  IF places = <<>> THEN <<>>
  ELSE LET x == RunLength(fs, places, TRUE)
           rest == SubSeq(places, x + 1, Len(places))
           e == RunLength(fs, rest, FALSE)
           position_fills == SubSeq(places, 1, x + e)
       IN (IF HasEntryAndExit(fs, position_fills) THEN <<position_fills>> ELSE <<>>)
            \o PositionsOf(fs, SubSeq(places, x + e + 1, Len(places)))

RECURSIVE SumOver(_, _, _)
SumOver(fs, places, field) ==
  IF places = <<>> THEN 0
  ELSE (CASE field = "pnl" -> fs[Head(places)].pnl
          [] field = "size" -> fs[Head(places)].sf.size
          [] OTHER -> fs[Head(places)].sf.fee) + SumOver(fs, Tail(places), field)

\* the aggregated position of one group
AggregatePosition(fs, position_fills, exchange) ==
  LET IsEntry(i) == fs[i].pnl = 0
      IsExit(i) == fs[i].pnl # 0
      entry_fills == SelectSeq(position_fills, IsEntry)
      exit_fills == SelectSeq(position_fills, IsExit)
      of_entry == IF entry_fills # <<>> THEN entry_fills ELSE position_fills
      of_exit == IF exit_fills # <<>> THEN exit_fills ELSE position_fills
      first_fill == of_entry[1]
  IN [fills |-> position_fills,
      symbol |-> fs[first_fill].symbol,
      qty |-> SumOver(fs, entry_fills, "size"),
      pnl |-> SumOver(fs, position_fills, "pnl"),
      fees |-> SumOver(fs, position_fills, "fee"),
      entry_ts |-> IF exchange = "binance" THEN fs[of_entry[Len(of_entry)]].ts
                   ELSE fs[of_entry[1]].ts,
      exit_ts |-> IF exchange = "binance" THEN fs[of_exit[1]].ts
                  ELSE fs[of_exit[Len(of_exit)]].ts]

\* the symbols of fs in the order of their first fill (the keys of by_symbol)
RECURSIVE SymbolOrder(_, _, _)
SymbolOrder(fs, i, seen) ==
  IF i > Len(fs) THEN <<>>
  ELSE IF fs[i].symbol \in seen THEN SymbolOrder(fs, i + 1, seen)
       ELSE <<fs[i].symbol>> \o SymbolOrder(fs, i + 1, seen \cup {fs[i].symbol})

RECURSIVE AggregateSymbols(_, _, _)
AggregateSymbols(fs, symbols, exchange) ==
  IF symbols = <<>> THEN <<>>
  ELSE LET groups == PositionsOf(fs, SortNewestFirst(fs, BySymbol(fs, Head(symbols), 1)))
       IN [k \in 1..Len(groups) |-> AggregatePosition(fs, groups[k], exchange)]
            \o AggregateSymbols(fs, Tail(symbols), exchange)

AggregateFills(fs, exchange) == AggregateSymbols(fs, SymbolOrder(fs, 1, {}), exchange)

\* a list of fills has been fetched
InitAgg ==
  /\ SyncIdle
  /\ client = IdleClient
  /\ registry = EmptyRegistry
  /\ calc = NoCalc
  /\ life = StartedScheduler
  /\ sizes = NoCache
  /\ \E fs \in FillLists : agg = [step |-> "fills", fills |-> fs]

Aggregate(exchange) ==
  /\ agg.step = "fills"
  /\ agg' = [step |-> "aggregated", exchange |-> exchange, fills |-> agg.fills,
             positions |-> AggregateFills(agg.fills, exchange)]
  /\ UNCHANGED <<row, hist, store, sched, manual, route, emitted, client, registry, calc,
                 life, sizes>>

NextAgg ==
  \/ Aggregate("binance")
  \/ Aggregate("blofin")

SpecAgg == InitAgg /\ [][NextAgg]_vars

Aggregated == agg.step = "aggregated"

\* ------------------------------------------------- incremental syncs
\* sync_blofin_trades 382-422 and sync_binance_trades 186-218: each sync asks
\* for the fills since last_sync_time, folds what it gets and, when it has
\* succeeded, sets last_sync_time to the time of the sync
AccountFills == [symbol : {"BTC-USDT"}, ts : FillTimes, pnl : FillPnls,
                 sf : {[size |-> 1, fee |-> -1]}]
AccountHistories == UNION {[1..n -> AccountFills] : n \in 1..MaxFills}

\* the places in fs of the fills the exchange returns at time clock for
\* begin / startTime = last
RECURSIVE PlacesSince(_, _, _, _)
PlacesSince(fs, last, clock, i) ==
  IF i > Len(fs) THEN <<>>
  ELSE (IF fs[i].ts <= clock /\ (last = NoTime \/ fs[i].ts >= last) THEN <<i>> ELSE <<>>)
         \o PlacesSince(fs, last, clock, i + 1)

\* the positions folded from the fills at places, each as the set of the
\* places of its fills in fs
PositionsFolded(fs, places, exchange) ==
  LET raw_fills == [k \in 1..Len(places) |-> fs[places[k]]]
      aggregated == AggregateFills(raw_fills, exchange)
  IN {{places[aggregated[k].fills[j]] : j \in 1..Len(aggregated[k].fills)} :
        k \in 1..Len(aggregated)}

InitIncr ==
  /\ SyncIdle
  /\ client = IdleClient
  /\ registry = EmptyRegistry
  /\ calc = NoCalc
  /\ life = StartedScheduler
  /\ sizes = NoCache
  /\ \E fs \in AccountHistories :
       agg = [step |-> "account", fills |-> fs, clock |-> 1, last |-> NoTime, folded |-> {}]

\* time passes on the exchange
Tick ==
  /\ agg.step = "account"
  /\ \E t \in FillTimes : t > agg.clock
  /\ agg' = [agg EXCEPT !.clock = @ + 1]
  /\ UNCHANGED <<row, hist, store, sched, manual, route, emitted, client, registry, calc,
                 life, sizes>>

\* one successful sync; a sync that gets no fill at all returns "No trades
\* found" and leaves last_sync_time alone (blofin_sync.py 413-417)
IncrementalSync(exchange) ==
  /\ agg.step = "account"
  /\ agg.last < agg.clock
  /\ LET places == PlacesSince(agg.fills, agg.last, agg.clock, 1) IN
       /\ places # <<>>
       /\ agg' = [agg EXCEPT !.last = agg.clock,
                            !.folded = @ \cup PositionsFolded(agg.fills, places, exchange)]
  /\ UNCHANGED <<row, hist, store, sched, manual, route, emitted, client, registry, calc,
                 life, sizes>>

NextIncr ==
  \/ Tick
  \/ IncrementalSync("binance")
  \/ IncrementalSync("blofin")

SpecIncr == InitIncr /\ [][NextIncr]_vars

\* ------------------------------------------- pnl_percent
\* percentages are counted in ten-thousandths of a percent (round(x, 4));
\* the amounts drawn are whole numbers of units
PctUnit == 10000
NoPct == -1            \* the key pnl_percent is not in the emitted record
\* round((pnl_usd / (entry * size / leverage)) * 100, 4); no percentage
\* used here lies half-way between two ten-thousandths
PctOf(pnl_usd, entry, size, leverage) ==
  LET Whole(x) == x \div Unit
      num == Whole(pnl_usd) * Whole(leverage) * 100 * PctUnit
      den == Whole(entry) * Whole(size)
  IN (num + den \div 2) \div den

\* normalize_numeric_value(pnl_pct, max_value=100000)
NormalizePct(pnl_pct) == IF Abs(pnl_pct) > 100000 * PctUnit THEN 0 ELSE pnl_pct

PctRecords(path) ==
  [entry : {0, 100 * Unit},
   exit : {110 * Unit},
   size : {0, Unit, 2000000 * Unit},
   pnl : {0, 12 * Unit},
   lever : {0, Unit, 20 * Unit, 150 * Unit},
   override : {0, 5 * Unit},
   created : {5},
   closed : {7},
   symbol : IF path \in {"blofin_route", "blofin_job"} THEN {"BTC-USDT"}
            ELSE IF path = "hyperliquid" THEN {"BTC"} ELSE {"BTCUSDT"}]

\* pnl_pct of the calculated record c: calculate_trade_fields 555-561,
\* calculate_binance_trade_fields 471-476, calculate_bybit_trade_fields
\* 236-241, aggregate_hyperliquid_fills 272-277 and 303
CalculatedPct(path, c) ==
  IF path = "hyperliquid" /\ c.pnl_usd = 0 THEN 0
  ELSE IF c.entry > 0 /\ c.size > 0 /\ c.leverage > 0
       THEN PctOf(c.pnl_usd, c.entry, c.size, c.leverage)
       ELSE 0

\* pnl_percent of the record t prepared from c, whose calculated percentage
\* is pnl_pct: prepare_trades_for_supabase 330-340,
\* prepare_binance_trades_for_supabase 134-143,
\* prepare_bybit_trades_for_supabase 112-120,
\* prepare_hyperliquid_trades_for_supabase 121-122, run_sync_job 360-378
PreparedPct(path, c, t, pnl_pct, override) ==
  LET earlier == IF pnl_pct # 0 THEN NormalizePct(pnl_pct) ELSE NoPct IN
  CASE path = "blofin_route" ->
         IF t.entry_price > 0 /\ t.quantity > 0 /\ t.leverage > 0
         THEN PctOf(t.pnl_usd, t.entry_price, t.quantity, t.leverage)
         ELSE NormalizePct(pnl_pct)
    [] path = "binance" ->
         IF t.entry_price > 0 /\ t.quantity > 0 /\ t.leverage > 0
         THEN PctOf(t.pnl_usd, t.entry_price, t.quantity, t.leverage)
         ELSE earlier
    [] path = "bybit" ->
         IF t.entry_price > 0 /\ t.quantity > 0 /\ c.leverage > 0
         THEN PctOf(t.pnl_usd, t.entry_price, t.quantity, c.leverage)
         ELSE earlier
    [] path = "hyperliquid" -> earlier
    [] OTHER ->
         IF /\ (c.leverage <= 0 \/ c.leverage = Unit)
            /\ override > 0
            /\ c.entry > 0 /\ c.size > 0
         THEN PctOf(c.pnl_usd, c.entry, c.size, override)
         ELSE pnl_pct

InitPct ==
  /\ SyncIdle
  /\ ProcessUp
  /\ client = IdleClient
  /\ registry = EmptyRegistry
  /\ \E path \in Paths : \E r \in PctRecords(path) :
       calc = [step |-> "raw", path |-> path, raw |-> r, rec |-> Dropped,
               pnl_pct |-> 0, pnl_percent |-> NoPct]

PctCalculate ==
  /\ calc.step = "raw"
  /\ LET f == CalculateFields(calc.path, calc.raw)
         c == IF calc.path = "blofin_route" /\ f # Dropped
              THEN MatchEntryExitPairs(f, NoNext) ELSE f
     IN calc' = [calc EXCEPT !.rec = c,
                             !.pnl_pct = IF c = Dropped THEN 0 ELSE CalculatedPct(calc.path, c),
                             !.step = IF c = Dropped THEN "dropped" ELSE "calculated"]
  /\ UNCHANGED <<row, hist, store, sched, manual, route, emitted, client, registry, life,
                 agg, sizes>>

PctPrepare ==
  /\ calc.step = "calculated"
  /\ LET t == PrepareTrade(calc.path, calc.rec, calc.raw.override) IN
       calc' = [calc EXCEPT
                  !.rec = t,
                  !.pnl_percent = IF t = Dropped THEN NoPct
                                  ELSE PreparedPct(calc.path, calc.rec, t, calc.pnl_pct,
                                                   calc.raw.override),
                  !.step = IF t = Dropped THEN "dropped" ELSE "emitted"]
  /\ UNCHANGED <<row, hist, store, sched, manual, route, emitted, client, registry, life,
                 agg, sizes>>

NextPct ==
  \/ PctCalculate
  \/ PctPrepare

SpecPct == InitPct /\ [][NextPct]_vars

\* ------------------------------------------- Blofin contract sizes
\* contract values are counted in thousandths of a coin
MaxContracts == 2      \* fillSize of an aggregated position, in contracts
Instruments == {"BTC-USDT", "SOL-USDT"}
ContractValues == {1, 1000}
NotCached == 0
NoTrade == [kind |-> "none"]

\* get_contract_size(symbol) without a client: the cached value, else the
\* built-in default (0.001 for BTC*, 0.01 for ETH* and for the rest)
GetContractSize(cache, symbol) ==
  IF cache[symbol] # NotCached THEN cache[symbol]
  ELSE IF SubSeq(symbol, 1, 3) = "BTC" THEN 1 ELSE 10

\* no sync has run in the process: get_contract_size has no _cache yet
InitSizes ==
  /\ SyncIdle
  /\ client = IdleClient
  /\ registry = EmptyRegistry
  /\ calc = NoCalc
  /\ life = StartedScheduler
  /\ agg = NoAgg
  /\ \E v \in [Instruments -> ContractValues] :
       sizes = [set |-> TRUE, cache |-> [i \in Instruments |-> NotCached],
                contract_value |-> v, trade |-> NoTrade]

\* the exchange changes the contractValue of an instrument
ExchangeRelists ==
  /\ sizes.set
  /\ \E i \in Instruments : \E v \in ContractValues \ {sizes.contract_value[i]} :
       sizes' = [sizes EXCEPT !.contract_value[i] = v]
  /\ UNCHANGED <<row, hist, store, sched, manual, route, emitted, client, registry, calc,
                 life, agg>>

\* calculate_trade_fields 504-514: size = size_contracts * contract_size
CalculatedTrade(cache, path, symbol, size_contracts) ==
  [kind |-> "trade", path |-> path, symbol |-> symbol, fillSize |-> size_contracts,
   quantity |-> size_contracts * GetContractSize(cache, symbol),
   known |-> sizes.contract_value[symbol]]

\* sync_blofin_trades: fetch_contract_sizes replaces the table, then
\* calculate_trade_fields reads it
RouteSizes ==
  /\ sizes.set
  /\ \E i \in Instruments : \E n \in 1..MaxContracts :
       sizes' = [sizes EXCEPT !.cache = sizes.contract_value,
                              !.trade = CalculatedTrade(sizes.contract_value, "route", i, n)]
  /\ UNCHANGED <<row, hist, store, sched, manual, route, emitted, client, registry, calc,
                 life, agg>>

\* sync_blofin_trades when the instruments request fails: fetch_contract_sizes
\* returns {} and the table stays as it was
RouteSizesFetchFails ==
  /\ sizes.set
  /\ \E i \in Instruments : \E n \in 1..MaxContracts :
       sizes' = [sizes EXCEPT !.trade = CalculatedTrade(sizes.cache, "route", i, n)]
  /\ UNCHANGED <<row, hist, store, sched, manual, route, emitted, client, registry, calc,
                 life, agg>>

\* ExchangeService.fetch_all_trades for Blofin (scheduler and run_sync_job):
\* no instruments request, calculate_trade_fields reads the table as it is
JobSizes ==
  /\ sizes.set
  /\ \E i \in Instruments : \E n \in 1..MaxContracts :
       sizes' = [sizes EXCEPT !.trade = CalculatedTrade(sizes.cache, "job", i, n)]
  /\ UNCHANGED <<row, hist, store, sched, manual, route, emitted, client, registry, calc,
                 life, agg>>

NextSizes ==
  \/ ExchangeRelists
  \/ RouteSizes
  \/ RouteSizesFetchFails
  \/ JobSizes

SpecSizes == InitSizes /\ [][NextSizes]_vars

\* ------------------------------------------- match_entry_exit_pairs
\* blofin_sync.py 179-243 on a list of calculated records (size 1, leverage 1)
MaxTrades == 3      \* records in one list
TradeSymbols == {"BTC-USDT", "ETH-USDT"}
TradeEntries == {[date |-> 1, entry |-> 100], [date |-> 2, entry |-> 200]}

\* pnl_pct = (pnl_usd / (entry * size / leverage)) * 100
PnlPct(pnl_usd, entry) == (pnl_usd * 100) \div entry

CalculatedTrades ==
  {[symbol |-> y, pnl_usd |-> p, date |-> e.date, exit_date |-> NoDate, entry |-> e.entry,
    exit |-> 150, pnl_pct |-> PnlPct(p, e.entry)] :
     y \in TradeSymbols, p \in {0, 10}, e \in TradeEntries}
TradeLists == UNION {[1..n -> CalculatedTrades] : n \in 0..MaxTrades}

\* a follower is taken for the entry leg whatever its symbol
IsPairAnySymbol(current_trade, next_trade) == next_trade.pnl_usd = 0

\* lines 203-205
IsPair(current_trade, next_trade) ==
  /\ next_trade.pnl_usd = 0
  /\ next_trade.symbol = current_trade.symbol

\* lines 206-224
Paired(current_trade, next_trade) ==
  [MatchEntryExitPairs(current_trade,
                       [kind |-> "entry", date |-> next_trade.date,
                        entry |-> next_trade.entry])
     EXCEPT !.pnl_pct = PnlPct(current_trade.pnl_usd, next_trade.entry)]

\* the while loop, lines 194-241
RECURSIVE MatchLoop(_, _)
MatchLoop(trades, i) ==
  IF i > Len(trades) THEN <<>>
  ELSE IF trades[i].pnl_usd # 0
       THEN IF i + 1 <= Len(trades) /\ IsPair(trades[i], trades[i + 1])
            THEN <<Paired(trades[i], trades[i + 1])>> \o MatchLoop(trades, i + 2)
            ELSE <<trades[i]>> \o MatchLoop(trades, i + 1)
       ELSE MatchLoop(trades, i + 1)

InitMatch ==
  /\ SyncIdle
  /\ client = IdleClient
  /\ registry = EmptyRegistry
  /\ calc = NoCalc
  /\ life = StartedScheduler
  /\ sizes = NoCache
  /\ \E ts \in TradeLists : agg = [step |-> "calculated", trades |-> ts]

MatchPass ==
  /\ agg.step = "calculated"
  /\ agg' = [step |-> "matched", trades |-> agg.trades,
             matched_trades |-> MatchLoop(agg.trades, 1)]
  /\ UNCHANGED <<row, hist, store, sched, manual, route, emitted, client, registry, calc,
                 life, sizes>>

NextMatch == MatchPass

SpecMatch == InitMatch /\ [][NextMatch]_vars

\* ------------------------------------------- Hyperliquid open / close
\* aggregate_hyperliquid_fills (hyperliquid_client.py 194-308), one fill of
\* the loop at a time; prices are multiples of 1200 so that every average the
\* lists below lead to is a whole number
MaxHLFills == 3     \* fills in one list
Directions == {"Open Long", "Close Long", "Open Short", "Close Short"}
HLTimes == {1, 2}
HLPriceSizes == {[px |-> 1200, sz |-> 1], [px |-> 3600, sz |-> 2], [px |-> 0, sz |-> 1]}
HLFills == [dir : Directions, time : HLTimes, ps : HLPriceSizes]
HLFillLists == UNION {[1..n -> HLFills] : n \in 1..MaxHLFills}

IsOpen(fill) == fill.dir \in {"Open Long", "Open Short"}
\* f"{coin}_{side}" for the one coin BTC
KeyOf(fill) == IF fill.dir \in {"Open Long", "Close Long"} THEN "BTC_BUY" ELSE "BTC_SELL"
HLKeys == {"BTC_BUY", "BTC_SELL"}
NoPosition == [total_size |-> 0, total_cost |-> 0, entry_time |-> NoDate]

\* sorted(fills, key=time): stable, oldest first
RECURSIVE InsertOldestFirst(_, _)
InsertOldestFirst(sorted, fill) ==
  IF sorted = <<>> THEN <<fill>>
  ELSE IF Head(sorted).time > fill.time THEN <<fill>> \o sorted
       ELSE <<Head(sorted)>> \o InsertOldestFirst(Tail(sorted), fill)

RECURSIVE SortOldestFirst(_)
SortOldestFirst(fills) ==
  IF fills = <<>> THEN <<>>
  ELSE InsertOldestFirst(SortOldestFirst(SubSeq(fills, 1, Len(fills) - 1)), fills[Len(fills)])

InitHL ==
  /\ SyncIdle
  /\ client = IdleClient
  /\ registry = EmptyRegistry
  /\ calc = NoCalc
  /\ life = StartedScheduler
  /\ sizes = NoCache
  /\ \E fs \in HLFillLists : agg = [step |-> "hl_fills", fills |-> fs]

\* an aggregator that walks the fills in the order it was given them
HLKeepsOrder ==
  /\ agg.step = "hl_fills"
  /\ agg' = [step |-> "hl_loop", fills |-> agg.fills, sorted_fills |-> agg.fills,
             positions |-> [k \in HLKeys |-> NoPosition], completed_trades |-> <<>>]
  /\ UNCHANGED <<row, hist, store, sched, manual, route, emitted, client, registry, calc,
                 life, sizes>>

\* lines 206-210
HLSort ==
  /\ agg.step = "hl_fills"
  /\ agg' = [step |-> "hl_loop", fills |-> agg.fills,
             sorted_fills |-> SortOldestFirst(agg.fills),
             positions |-> [k \in HLKeys |-> NoPosition], completed_trades |-> <<>>]
  /\ UNCHANGED <<row, hist, store, sched, manual, route, emitted, client, registry, calc,
                 life, sizes>>

HLLoop == agg.step = "hl_loop" /\ agg.sorted_fills # <<>>
HLFill == Head(agg.sorted_fills)
HLValid(fill) == fill.ps.px # 0 /\ fill.ps.sz # 0

\* lines 213-215: calculate_hyperliquid_trade_fields returns None
HLSkipFill ==
  /\ HLLoop
  /\ ~HLValid(HLFill)
  /\ agg' = [agg EXCEPT !.sorted_fills = Tail(@)]
  /\ UNCHANGED <<row, hist, store, sched, manual, route, emitted, client, registry, calc,
                 life, sizes>>

\* lines 221-240
HLOpen ==
  /\ HLLoop
  /\ HLValid(HLFill)
  /\ IsOpen(HLFill)
  /\ LET pos == agg.positions[KeyOf(HLFill)] IN
       agg' = [agg EXCEPT !.sorted_fills = Tail(@),
                 !.positions[KeyOf(HLFill)] =
                    [total_size |-> pos.total_size + HLFill.ps.sz,
                     total_cost |-> pos.total_cost + HLFill.ps.px * HLFill.ps.sz,
                     entry_time |-> IF pos = NoPosition THEN HLFill.time
                                    ELSE pos.entry_time]]
  /\ UNCHANGED <<row, hist, store, sched, manual, route, emitted, client, registry, calc,
                 life, sizes>>

\* lines 243-287
HLCloseMatched ==
  /\ HLLoop
  /\ HLValid(HLFill)
  /\ ~IsOpen(HLFill)
  /\ agg.positions[KeyOf(HLFill)].total_size > 0
  /\ LET pos == agg.positions[KeyOf(HLFill)]
         avg_entry == pos.total_cost \div pos.total_size
         left == pos.total_size - HLFill.ps.sz
         trade == [key |-> KeyOf(HLFill), entry_price |-> avg_entry,
                   exit_price |-> HLFill.ps.px,
                   quantity |-> Min(HLFill.ps.sz, pos.total_size),
                   entry_time |-> pos.entry_time, exit_time |-> HLFill.time]
     IN agg' = [agg EXCEPT !.sorted_fills = Tail(@),
                  !.completed_trades = Append(@, trade),
                  !.positions[KeyOf(HLFill)] =
                     IF left <= 0 THEN NoPosition
                     ELSE [pos EXCEPT !.total_size = left, !.total_cost = avg_entry * left]]
  /\ UNCHANGED <<row, hist, store, sched, manual, route, emitted, client, registry, calc,
                 life, sizes>>

\* lines 289-305
HLCloseAlone ==
  /\ HLLoop
  /\ HLValid(HLFill)
  /\ ~IsOpen(HLFill)
  /\ agg.positions[KeyOf(HLFill)].total_size <= 0
  /\ agg' = [agg EXCEPT !.sorted_fills = Tail(@),
               !.completed_trades =
                  Append(@, [key |-> KeyOf(HLFill), entry_price |-> HLFill.ps.px,
                             exit_price |-> HLFill.ps.px, quantity |-> HLFill.ps.sz,
                             entry_time |-> HLFill.time, exit_time |-> HLFill.time])]
  /\ UNCHANGED <<row, hist, store, sched, manual, route, emitted, client, registry, calc,
                 life, sizes>>

NextHL ==
  \/ HLSort
  \/ HLSkipFill
  \/ HLOpen
  \/ HLCloseMatched
  \/ HLCloseAlone

SpecHL == InitHL /\ [][NextHL]_vars

\* ------------------------------------------------------- jobs in progress
\* the job of the firing is between lines 174 and 245 of _sync_connection
SchedRunning(c) == sched.pc \in {"await", "fetched", "fetch_error", "store"} /\ Cur = c
\* run_sync_job is between lines 309 and 425
ManualRunning(s, c) == manual[s].pc # "idle" /\ manual[s].conn = c
\* a per-exchange handler is between its first and its last statement
RouteRunning(c) == route.pc # "idle" /\ route.conn = c

RunningJobs(c) ==
  Cardinality({s \in ManualSlots : ManualRunning(s, c)})
  + (IF SchedRunning(c) THEN 1 ELSE 0) + (IF RouteRunning(c) THEN 1 ELSE 0)

\* the step ends a scheduler job / a manual job on c
SchedJobEnds(c) == SchedRunning(c) /\ sched'.pc = "loop"
ManualJobEnds(s, c) == ManualRunning(s, c) /\ manual'[s].pc = "idle"
\* the step ends a route handler that had set c in_progress
RouteJobEnds(c) ==
  RouteRunning(c) /\ row[c].exchange_name # "hyperliquid" /\ route'.pc = "idle"

\* ------------------------------------------------------------------ C1
\* C1: whatever the interleaving of scheduler firings, manual syncs and
\* per-exchange routes, at most one sync job runs for a connection at a time
C1AtMostOneJob == \A c \in Conns : RunningJobs(c) <= 1

\* ------------------------------------------------------------------ C2
\* C2: a job that set the connection in_progress leaves it success or failed
\* when it ends, on every path
C2JobEndsSettled ==
  [][\A c \in Conns :
       (SchedJobEnds(c) \/ (\E s \in ManualSlots : ManualJobEnds(s, c)) \/ RouteJobEnds(c))
       => row'[c].last_sync_status \in {"success", "failed"}]_vars

\* ------------------------------------------------------------------ C3
\* C3: a job one of whose exchange requests failed ends with the connection
\* failed and last_error set to the message cut at 500 characters, never success
C3RequestFailureFails ==
  [][\A c \in Conns :
       ( \/ (SchedJobEnds(c) /\ sched.pc = "fetch_error")
         \/ (\E s \in ManualSlots : ManualJobEnds(s, c) /\ manual[s].pc = "fetch_error")
         \/ (RouteRunning(c) /\ RouteFetchFails) )
       => /\ row'[c].last_sync_status = "failed"
          /\ row'[c].last_error # NoError
          /\ row'[c].last_error.len <= ErrorLimit]_vars

\* ------------------------------------------------------------------ C4
\* C4: a job that runs on a connection whose previous job ended when the
\* exchange had the history it has now stores no new trade
C4SecondRunStoresNothing ==
  [][\A c \in Conns :
       ((SchedJobEnds(c) \/ (\E s \in ManualSlots : ManualJobEnds(s, c)))
        /\ row[c].last_sync_time = now)
       => store' = store]_vars

\* ------------------------------------------------------------------ C5
\* C5: a trade of an account gets the same exchange_trade_id in every run
\* that emits it, whatever was traded in between
C5StableTradeId ==
  \A a \in emitted, b \in emitted : (a[1] = b[1] /\ a[2] = b[2]) => a[3] = b[3]

\* ------------------------------------------------------------------ C6
\* C6: no two stored trades of one (user, exchange) share an exchange_trade_id
C6NoSharedTradeId == \A k \in StoreKeys : store[k] <= 1

\* ------------------------------------------------------------------ C7
\* C7: the requests of a job started on a connection with last_sync_time = T
\* ask for the fills since T
C7AsksSinceLastSync ==
  [][\A c \in Conns :
       /\ (sched.pc = "loop" /\ sched'.pc = "await" /\ Cur = c)
            => sched'.req = row[c].last_sync_time
       /\ \A s \in ManualSlots :
            (manual[s].pc = "idle" /\ manual'[s].pc = "await" /\ manual'[s].conn = c)
            => manual'[s].req = row[c].last_sync_time
       /\ (route.pc = "idle" /\ route'.pc = "await" /\ route'.conn = c)
            => route'.req = row[c].last_sync_time]_vars

\* ------------------------------------------------------------------ C8
\* C8: when the firing examines a connection, it skips it with the row
\* unchanged if the row is in_progress and hands it to a job if it is not
C8ExaminedByStatus ==
  [][(sched.pc = "loop" /\ sched.idx <= Len(ConnOrder) /\ sched' # sched)
     => IF row[Cur].last_sync_status = "in_progress"
        THEN row' = row /\ sched'.pc = "loop"
        ELSE SchedDispatch \/ SchedDecryptFails]_vars

\* ------------------------------------------------------------------ C9
\* the step of the firing in which the job of the connection at hand fails
SchedJobFaults ==
  /\ sched' # sched
  /\ \/ sched.pc = "await"
     \/ sched.pc = "loop" /\ sched.idx <= Len(ConnOrder) /\ sched.snap[Cur] # "in_progress"
  /\ row'[Cur].last_sync_status = "failed"

\* C9: a job that fails in a firing changes no other connection's row, the
\* firing goes on with the next connection and ends only after the last one,
\* and a new firing can start once it has ended
C9FaultIsolated ==
  /\ [](sched.pc = "off" => ENABLED SchedFire)
  /\ [][/\ SchedJobFaults
            => /\ \A c \in Conns \ {Cur} : row'[c] = row[c]
               /\ sched'.pc = "loop" /\ sched'.idx = sched.idx + 1
        /\ (sched.pc # "off" /\ sched'.pc = "off") => sched.idx > Len(ConnOrder)]_vars

\* the job of c1 failed on its secrets and the same firing is running c2's job
C9Witness ==
  /\ sched.pc = "await" /\ sched.idx = 2
  /\ row["c1"].last_sync_status = "failed" /\ row["c1"].last_error.kind = "decrypt"
  /\ row["c2"].last_sync_status = "in_progress"

\* ------------------------------------------------------------------ C10
\* C10: while a job of the firing is waiting for the exchange, the firing can
\* go on to the next connection
C10DispatchDoesNotWait ==
  SchedRunning(ConnOrder[1]) => ENABLED (SchedSkip \/ SchedDispatch \/ SchedDecryptFails)

\* ------------------------------------------------------------------ C11
\* C11: every client fetch ends, whatever the server answers
C11FetchTerminates == <>(client.pc \in {"returned", "raised"})

\* ------------------------------------------------------------------ C12
\* C12: a connection that is in_progress or success has no last_error
C12NoErrorWhileRunning ==
  \A c \in Conns :
    row[c].last_sync_status \in {"in_progress", "success"} => row[c].last_error = NoError

C20RetriesBeforeGivingUp ==
  [][FetchRequestFails => client.tries = 1 + 3]_vars
\* C14: every trade a prepare step emits has entry_price > 0, exit_price > 0
\* and quantity > 0; a record failing this is dropped
C14PositivePricesAndQuantity ==
  Emitted => /\ calc.rec.entry_price > 0
             /\ calc.rec.exit_price > 0
             /\ calc.rec.quantity > 0

\* C15: every emitted trade has leverage in the closed range [1, 200]
C15LeverageInRange ==
  Emitted => calc.rec.leverage >= Unit /\ calc.rec.leverage <= 200 * Unit

\* C16: every emitted trade that has an exit_time has it at or after its
\* entry_time
C16ExitNotBeforeEntry ==
  (Emitted /\ calc.rec.exit_time # NoDate) => calc.rec.exit_time >= calc.rec.entry_time

\* C17: the leverage of an emitted trade is the leverage the exchange
\* supplied when that is greater than 0, otherwise the user's override when
\* one exists, otherwise the default (1.0, or 10.0 for Hyperliquid, whose
\* fills carry no leverage)
C17LeveragePrecedence ==
  Emitted =>
    LET supplied == IF calc.path = "hyperliquid" THEN 0 ELSE calc.raw.lever IN
    calc.rec.leverage =
      IF supplied > 0 THEN supplied
      ELSE IF calc.raw.override > 0 THEN calc.raw.override
      ELSE IF calc.path = "hyperliquid" THEN DefaultLeverageHL ELSE Unit

\* C18: a record with pnl_usd 0 is never emitted for Binance or Blofin, and a
\* record with pnl_usd 0 and non-zero entry and exit prices is always emitted
\* for Bybit and Hyperliquid
C18ZeroPnlRule ==
  /\ (Emitted /\ calc.path \in {"binance", "blofin_route", "blofin_job"})
       => calc.rec.pnl_usd # 0
  /\ (/\ calc.path \in {"bybit", "hyperliquid"}
      /\ Round2(calc.raw.pnl) = 0
      /\ calc.raw.entry # 0
      /\ calc.raw.exit # 0)
       => calc.step # "dropped"

\* C19: every emitted symbol has the form BASE-QUOTE: a concatenated symbol
\* ending in USDT, BUSD or USDC is mapped to BASE-USDT, BASE-BUSD, BASE-USDC
\* and a Hyperliquid coin C to C-USDC
C19SymbolIsBaseQuote ==
  Emitted => IsBaseQuote(calc.rec.symbol)

\* C21: there is at most one running scheduler and it holds exactly the one
\* job sync_all_exchanges; start_scheduler on a running scheduler and
\* stop_scheduler without a scheduler change nothing; a firing is in flight
\* only while the scheduler exists, so none starts after stop_scheduler has
\* returned and stop_scheduler returns only after the firing has finished
C21SchedulerLifecycle ==
  /\ [](/\ life.running <= 1
        /\ (life.scheduler = "running") = (life.running = 1)
        /\ life.scheduler = "running" => life.jobs = 1
        /\ sched.pc # "off" => life.scheduler = "running")
  /\ [][/\ (StartScheduler /\ life.scheduler = "running")
             => (life'.scheduler = "running" /\ life'.jobs = 1 /\ life'.running = 1)
        /\ (StopSchedulerCalled /\ life.scheduler = "none")
             => (life'.scheduler = "none" /\ life'.running = 0 /\ life'.stop = "none")
        /\ (sched.pc = "off" /\ sched'.pc # "off")
             => (life.scheduler = "running" /\ life.stop = "none")
        /\ (life.scheduler = "running" /\ life'.scheduler = "none") => sched.pc = "off"]_vars

\* a second start_scheduler has returned on a running scheduler and later
\* stop_scheduler waits for a firing that is in flight
C21Witness ==
  /\ life.calls >= 3
  /\ life.stop = "waiting"
  /\ sched.pc # "off"

\* the places of the fills of symbol in fs, newest first, as the aggregators
\* order them
NewestFirst(symbol) == SortNewestFirst(agg.fills, BySymbol(agg.fills, symbol, 1))

\* C22: an emitted position is a group with at least one entry fill and at
\* least one exit fill of one symbol, the group being a maximal run of exit
\* fills followed by a maximal run of entry fills of that symbol's fills in
\* newest-first order; no fill is counted in two positions
C22CompleteGroupsOnly ==
  Aggregated =>
    /\ \A k \in 1..Len(agg.positions) :
         LET g == agg.positions[k].fills
             fs == agg.fills
             order == NewestFirst(agg.positions[k].symbol)
         IN /\ \E i \in 1..Len(g) : fs[g[i]].pnl = 0
            /\ \E i \in 1..Len(g) : fs[g[i]].pnl # 0
            /\ \A i \in 1..Len(g) : fs[g[i]].symbol = agg.positions[k].symbol
            /\ \A i, j \in 1..Len(order) : i < j => fs[order[i]].ts >= fs[order[j]].ts
            /\ \E a \in 1..Len(order) :
                 /\ a + Len(g) - 1 <= Len(order)
                 /\ g = SubSeq(order, a, a + Len(g) - 1)
                 \* exits first, then entries
                 /\ \A i, j \in 1..Len(g) : (i < j /\ fs[g[i]].pnl = 0) => fs[g[j]].pnl = 0
                 \* the run of exits cannot be extended to the left, nor the
                 \* run of entries to the right
                 /\ a > 1 => fs[order[a - 1]].pnl = 0
                 /\ a + Len(g) <= Len(order) => fs[order[a + Len(g)]].pnl # 0
    /\ \A k, l \in 1..Len(agg.positions) :
         k # l => \A i \in 1..Len(agg.positions[k].fills),
                     j \in 1..Len(agg.positions[l].fills) :
                    agg.positions[k].fills[i] # agg.positions[l].fills[j]

\* a position has been emitted from a list of MaxFills fills one of which
\* belongs to no position
C22Witness ==
  /\ Aggregated
  /\ Len(agg.positions) >= 1
  /\ Len(agg.fills) = MaxFills
  /\ \E i \in 1..Len(agg.fills) :
       \A k \in 1..Len(agg.positions) :
         \A j \in 1..Len(agg.positions[k].fills) : agg.positions[k].fills[j] # i

\* over the fills g of an emitted position: the sum of the sizes of the entry
\* fills ("size"), of the fill PnL ("pnl"), of the absolute commissions ("fee")
RECURSIVE SumOfGroup(_, _)
SumOfGroup(g, what) ==
  IF g = <<>> THEN 0
  ELSE LET x == agg.fills[Head(g)] IN
       (CASE what = "size" -> IF x.pnl = 0 THEN x.sf.size ELSE 0
          [] what = "pnl" -> x.pnl
          [] OTHER -> Abs(x.sf.fee)) + SumOfGroup(Tail(g), what)

\* C23: the quantity of an emitted position is the sum of the sizes of its
\* entry fills, its realized PnL the sum of the fill PnL of all its fills and
\* its fees the sum of the absolute values of their commissions
C23AggregationConserves ==
  Aggregated =>
    \A k \in 1..Len(agg.positions) :
      LET p == agg.positions[k]
      IN /\ p.qty = SumOfGroup(p.fills, "size")
         /\ p.pnl = SumOfGroup(p.fills, "pnl")
         /\ p.fees = SumOfGroup(p.fills, "fee")

\* C24: the entry_time of an emitted position is the least timestamp of its
\* entry fills and its exit_time the greatest timestamp of its exit fills
C24EntryMinExitMax ==
  Aggregated =>
    \A k \in 1..Len(agg.positions) :
      LET p == agg.positions[k]
          entries == {p.fills[i] : i \in {j \in 1..Len(p.fills) : agg.fills[p.fills[j]].pnl = 0}}
          exits == {p.fills[i] : i \in {j \in 1..Len(p.fills) : agg.fills[p.fills[j]].pnl # 0}}
      IN /\ \A i \in entries : p.entry_ts <= agg.fills[i].ts
         /\ \E i \in entries : p.entry_ts = agg.fills[i].ts
         /\ \A i \in exits : p.exit_ts >= agg.fills[i].ts
         /\ \E i \in exits : p.exit_ts = agg.fills[i].ts

\* C25: the fills are processed in ascending time; a Close fill with non-zero
\* price and size emits exactly one trade: with an open position its quantity
\* is min(close size, remaining size) and its entry price is accumulated cost
\* / accumulated size, the remaining size goes down by the close size, the
\* position is deleted at zero and a remainder keeps its average entry price;
\* without a position the Close is emitted as a single-fill trade; an Open
\* fill emits nothing; every position in the table has remaining size > 0
C25OpenCloseMatching ==
  /\ [](agg.step = "hl_loop" =>
          /\ \A i, j \in 1..Len(agg.sorted_fills) :
               i < j => agg.sorted_fills[i].time <= agg.sorted_fills[j].time
          /\ \A k \in HLKeys : agg.positions[k] # NoPosition
                                 => agg.positions[k].total_size > 0)
  /\ [][(agg.step = "hl_loop" /\ agg.sorted_fills # <<>>) =>
          LET fill == Head(agg.sorted_fills)
              pos == agg.positions[KeyOf(fill)]
              after == agg'.positions[KeyOf(fill)]
              n == Len(agg.completed_trades)
              trade == agg'.completed_trades[n + 1]
          IN /\ agg'.sorted_fills = Tail(agg.sorted_fills)
             /\ \A k \in HLKeys \ {KeyOf(fill)} : agg'.positions[k] = agg.positions[k]
             /\ IF ~HLValid(fill) \/ IsOpen(fill)
                THEN agg'.completed_trades = agg.completed_trades
                ELSE /\ Len(agg'.completed_trades) = n + 1
                     /\ SubSeq(agg'.completed_trades, 1, n) = agg.completed_trades
                     /\ trade.exit_price = fill.ps.px
                     /\ IF pos # NoPosition
                        THEN /\ trade.quantity = Min(fill.ps.sz, pos.total_size)
                             /\ trade.entry_price * pos.total_size = pos.total_cost
                             /\ IF pos.total_size - fill.ps.sz <= 0
                                THEN after = NoPosition
                                ELSE /\ after.total_size = pos.total_size - fill.ps.sz
                                     /\ after.total_cost * pos.total_size
                                          = pos.total_cost * after.total_size
                        ELSE /\ trade.quantity = fill.ps.sz
                             /\ trade.entry_price = fill.ps.px
                             /\ trade.entry_time = fill.time
                             /\ trade.exit_time = fill.time
                             /\ after = NoPosition]_vars

\* fills given newest first: two opens at different prices, then a close of
\* part of the position, which leaves a remainder in the table
C25Witness ==
  /\ agg.step = "hl_loop"
  /\ agg.sorted_fills = <<>>
  /\ agg.fills[1].time > agg.fills[Len(agg.fills)].time
  /\ Len(agg.completed_trades) = 1
  /\ \E k \in HLKeys : /\ agg.positions[k].total_size > 0
                       /\ agg.completed_trades[1].key = k
                       /\ agg.completed_trades[1].quantity < 3
                       /\ agg.completed_trades[1].entry_price \notin {1200, 3600}

\* C26: last_sync_time is written only in a step that sets last_sync_status
\* to success; the step that ends a job in failed leaves last_sync_time as it
\* was, and for a route, which asks the exchange for the trades since
\* last_sync_time, that is the time the failed request had asked for
C26FailedKeepsSyncTime ==
  [][\A c \in Conns :
       /\ row'[c].last_sync_time # row[c].last_sync_time
            => row'[c].last_sync_status = "success"
       /\ (row'[c].last_sync_status = "failed" /\ row'[c] # row[c])
            => /\ row'[c].last_sync_time = row[c].last_sync_time
               /\ RouteJobEnds(c) => row'[c].last_sync_time = route.req]_vars

\* a connection that was synced once has a later job ending in failed
C26Witness ==
  \E c \in Conns : /\ row[c].last_sync_status = "failed"
                   /\ row[c].last_sync_time # NoTime
                   /\ row[c].last_sync_time < now

\* C27: once the syncs have covered the whole history, every round trip that
\* has closed on the exchange (every complete position of the whole history)
\* has been emitted by some sync, also when its entry fills are older and its
\* exit fills newer than a last_sync_time
C27RoundTripsEmitted ==
  (agg.step = "account" /\ \A t \in FillTimes : agg.last >= t) =>
    PositionsFolded(agg.fills, PlacesSince(agg.fills, NoTime, agg.last, 1), "blofin")
      \subseteq agg.folded

\* the places of the records of the input whose pnl_usd is not 0, in order
ExitPlaces ==
  SelectSeq([i \in 1..Len(agg.trades) |-> i], LAMBDA i : agg.trades[i].pnl_usd # 0)

\* C28: match_entry_exit_pairs returns, in input order, exactly the records
\* whose pnl_usd is not 0; one that is immediately followed by a record of
\* the same symbol with pnl_usd 0 gets exit_date = its old date, date = the
\* follower's date, exit = its old entry and entry = the follower's entry;
\* any other is returned unchanged; no record with pnl_usd 0 is returned
C28PairsMatched ==
  agg.step = "matched" =>
    /\ Len(agg.matched_trades) = Len(ExitPlaces)
    /\ \A k \in 1..Len(ExitPlaces) :
         LET i == ExitPlaces[k]
             t == agg.trades[i]
             out == agg.matched_trades[k]
         IN /\ out.pnl_usd # 0
            /\ out.pnl_usd = t.pnl_usd /\ out.symbol = t.symbol
            /\ IF /\ i < Len(agg.trades)
                  /\ agg.trades[i + 1].pnl_usd = 0
                  /\ agg.trades[i + 1].symbol = t.symbol
               THEN /\ out.exit_date = t.date
                    /\ out.date = agg.trades[i + 1].date
                    /\ out.exit = t.entry
                    /\ out.entry = agg.trades[i + 1].entry
               ELSE out = t

\* a full list was matched and its first returned record is a rewritten
\* pair: it carries an exit date, and its date is the follower's earlier one
C28Witness ==
  /\ agg.step = "matched"
  /\ Len(agg.matched_trades) >= 1
  /\ Len(agg.trades) = MaxTrades
  /\ agg.matched_trades[1].exit_date # NoDate
  /\ agg.matched_trades[1].date < agg.matched_trades[1].exit_date

\* C29: every emitted trade carries pnl_percent =
\* pnl_usd / (entry_price * quantity / leverage) * 100 on the leverage and
\* quantity it is emitted with, and 0 (not absent, not an earlier value)
\* when the quantity or the leverage it is emitted with is 0
C29PnlPercentFromFinalLeverage ==
  ("pnl_percent" \in DOMAIN calc /\ calc.step = "emitted") =>
    calc.pnl_percent =
      IF calc.rec.quantity > 0 /\ calc.rec.leverage > 0
      THEN PctOf(calc.rec.pnl_usd, calc.rec.entry_price, calc.rec.quantity, calc.rec.leverage)
      ELSE 0

\* C30: the coin quantity of an emitted Blofin trade is its fillSize in
\* contracts times the contractValue the exchange has for its symbol at the
\* time of the job, in the route and in the scheduled / background job
C30QuantityFromOwnContractValue ==
  (sizes.set /\ sizes.trade # NoTrade) =>
    sizes.trade.quantity = sizes.trade.fillSize * sizes.trade.known

====
